---------------------------- MODULE Spec2Model ----------------------------
(***************************************************************************)
(* Salary calculator (src/App.tsx): the stage detection effect, the input  *)
(* and calculate handlers, the delayed calculation and the pure            *)
(* calculateEnhancements, as one state machine over the React state of the *)
(* App component.                                                          *)
(*                                                                         *)
(* JavaScript numbers are IEEE-754 doubles.  The pays are integers and are *)
(* kept as integers while they are below 2^31 in absolute value, and as    *)
(* doubles beyond; the three derived amounts (dra, runningPayIncrease,     *)
(* totalIncrease) are products and sums of doubles and are kept as         *)
(* doubles, with the rounding of each operation.                           *)
(***************************************************************************)
EXTENDS Integers, Sequences, FiniteSets, TLC

(***************************************************************************)
(* Natural numbers of any size, as little-endian sequences of limbs in     *)
(* base 2^14 without leading zero limbs (zero is <<>>).  They carry the    *)
(* exact products and sums that a double operation rounds.                 *)
(***************************************************************************)
LimbBase == 2^14

\* a without its leading zero limbs
BigNorm(a) ==
    SubSeq(a, 1, CHOOSE n \in 0..Len(a) :
                     /\ n = 0 \/ a[n] # 0
                     /\ \A j \in (n + 1)..Len(a) : a[j] = 0)

RECURSIVE BigFromNat(_)
BigFromNat(n) ==
    IF n = 0 THEN <<>> ELSE <<n % LimbBase>> \o BigFromNat(n \div LimbBase)

BigLimb(a, i) == IF i <= Len(a) THEN a[i] ELSE 0

\* one carry step over limbs t[i] < 2^31: every limb keeps its low 14 bits
\* and takes what the limb below it holds above them
BigCarryStep(t) ==
    [i \in 1..(Len(t) + 1) |->
        (BigLimb(t, i) % LimbBase)
        + (IF i > 1 THEN t[i - 1] \div LimbBase ELSE 0)]

\* over limbs u[i] <= 2^14: a carry enters limb i when a limb below it is
\* 2^14 and every limb between the two is 2^14 - 1
BigCarryIn(u, i) ==
    \E j \in 1..(i - 1) :
        /\ u[j] = LimbBase
        /\ \A k \in (j + 1)..(i - 1) : u[k] = LimbBase - 1

\* the number whose limbs are u[i] <= 2^14 before the carries
BigRipple(u) ==
    BigNorm([i \in 1..(Len(u) + 1) |->
                (BigLimb(u, i) + (IF BigCarryIn(u, i) THEN 1 ELSE 0))
                    % LimbBase])

\* the number whose limbs are t[i] < 2^31 before the carries: three carry
\* steps leave limbs of at most 2^14, and the last carries ripple
BigCarry(t) == BigRipple(BigCarryStep(BigCarryStep(BigCarryStep(t))))

\* a * k, for 0 <= k < 2^17
BigMulSmall(a, k) == BigCarry([i \in 1..Len(a) |-> a[i] * k])

\* the value of a, for a < 2^31
RECURSIVE BigToNat(_)
BigToNat(a) == IF a = <<>> THEN 0 ELSE a[1] + LimbBase * BigToNat(Tail(a))

BigAdd(a, b) ==
    BigCarry([i \in 1..(IF Len(a) > Len(b) THEN Len(a) ELSE Len(b)) |->
                 BigLimb(a, i) + BigLimb(b, i)])

\* the sum of f[lo], ..., f[hi]
RECURSIVE SumOver(_, _, _)
SumOver(f, lo, hi) ==
    IF lo > hi THEN 0
    ELSE IF lo = hi THEN f[lo]
    ELSE LET mid == (lo + hi) \div 2
         IN  SumOver(f, lo, mid) + SumOver(f, mid + 1, hi)

\* the products a[i] * b[j] with i + j = k + 1, which weigh 2^(14 * (k - 1)):
\* the sum of their low 14 bits (high = FALSE) or of the rest of them
BigMulColumn(a, b, k, high) ==
    LET lo == IF k + 1 - Len(b) > 1 THEN k + 1 - Len(b) ELSE 1
        hi == IF k < Len(a) THEN k ELSE Len(a)
    IN  SumOver([i \in lo..hi |->
                    IF high THEN (a[i] * b[k + 1 - i]) \div LimbBase
                    ELSE (a[i] * b[k + 1 - i]) % LimbBase],
                lo, hi)

\* a * b
BigMul(a, b) ==
    IF a = <<>> \/ b = <<>> THEN <<>>
    ELSE BigCarry([k \in 1..(Len(a) + Len(b)) |->
                      BigMulColumn(a, b, k, FALSE)
                      + BigMulColumn(a, b, k - 1, TRUE)])

\* a borrow enters limb i of a - b when a limb of a below it is less than
\* the limb of b and the limbs between the two are equal
BigBorrowIn(a, b, i) ==
    \E j \in 1..(i - 1) :
        /\ a[j] < BigLimb(b, j)
        /\ \A k \in (j + 1)..(i - 1) : a[k] = BigLimb(b, k)

\* a - b, for a >= b
BigSub(a, b) ==
    BigNorm([i \in 1..Len(a) |->
                (a[i] - BigLimb(b, i) - (IF BigBorrowIn(a, b, i) THEN 1 ELSE 0)
                 + LimbBase) % LimbBase])

\* -1, 0 or 1 as a < b, a = b or a > b
BigCmp(a, b) ==
    IF Len(a) < Len(b) THEN -1
    ELSE IF Len(a) > Len(b) THEN 1
    ELSE LET D == {i \in 1..Len(a) : a[i] # b[i]}
         IN  IF D = {} THEN 0
             ELSE LET i == CHOOSE i \in D : \A j \in D : j <= i
                  IN  IF a[i] < b[i] THEN -1 ELSE 1

RECURSIVE NatBitLen(_)
NatBitLen(n) == IF n = 0 THEN 0 ELSE 1 + NatBitLen(n \div 2)

BigBitLen(a) == IF a = <<>> THEN 0 ELSE 14 * (Len(a) - 1) + NatBitLen(a[Len(a)])

\* a * 2^s
BigShl(a, s) ==
    IF a = <<>> THEN <<>>
    ELSE [i \in 1..(s \div 14) |-> 0] \o BigMulSmall(a, 2^(s % 14))

\* floor(a / 2^s)
BigShr(a, s) ==
    LET w == s \div 14
        r == s % 14
        n == Len(a) - w
    IN  IF n <= 0 THEN <<>>
        ELSE BigNorm([i \in 1..n |->
                 (a[i + w] \div 2^r) + (BigLimb(a, i + w + 1) % 2^r) * 2^(14 - r)])

\* a mod 2^s
BigLowBits(a, s) ==
    LET w == s \div 14
        r == s % 14
    IN  BigNorm([i \in 1..(IF Len(a) < w + 1 THEN Len(a) ELSE w + 1) |->
                    IF i <= w THEN a[i] ELSE a[i] % 2^r])

BigIsOdd(a) == a # <<>> /\ a[1] % 2 = 1

\* floor(a / k) and a mod k, for 0 < k < 2^17
RECURSIVE BigDivSmallFrom(_, _, _, _)
BigDivSmallFrom(a, k, i, rem) ==
    IF i = 0 THEN [q |-> <<>>, r |-> rem]
    ELSE LET t    == rem * LimbBase + a[i]
             rest == BigDivSmallFrom(a, k, i - 1, t % k)
         IN  [q |-> rest.q \o <<t \div k>>, r |-> rest.r]

BigDivSmall(a, k) ==
    LET d == BigDivSmallFrom(a, k, Len(a), 0)
    IN  [q |-> BigNorm(d.q), r |-> d.r]

(***************************************************************************)
(* A positive double is [m, e] with 2^52 <= m < 2^53 and value m * 2^e, or *)
(* Infinity.  RoundToDouble(p, e) is the double nearest to the exact value *)
(* p * 2^e > 0, ties to the even mantissa (the rounding of every           *)
(* JavaScript arithmetic operation and of every decimal literal); a value  *)
(* that rounds beyond the largest double, (2^53 - 1) * 2^971, is Infinity. *)
(***************************************************************************)
Infinity == [m |-> <<>>, e |-> 972]

IsInfinity(d) == d.m = <<>>

\* q or q + 1, as the bits dropped after q compare with half a unit of q:
\* c is -1, 0 or 1 for less, half and more
BigRoundUp(q, c) ==
    IF c > 0 \/ (c = 0 /\ BigIsOdd(q)) THEN BigAdd(q, <<1>>) ELSE q

\* floor(p / 2^s) rounded to the nearest, ties to even, for s > 0
BigRoundShr(p, s) ==
    BigRoundUp(BigShr(p, s), BigCmp(BigLowBits(p, s), BigShl(<<1>>, s - 1)))

\* the double q * 2^e for 2^52 <= q <= 2^53
DoubleOfMantissa(q, e) ==
    IF BigBitLen(q) = 54 THEN [m |-> BigShr(q, 1), e |-> e + 1]
    ELSE [m |-> q, e |-> e]

DoubleOrInfinity(d) == IF d.e > 971 THEN Infinity ELSE d

\* RoundToDouble(p, e) for p of L bits
RoundBits(p, e, L) ==
    DoubleOrInfinity(
        IF L <= 53 THEN [m |-> BigShl(p, 53 - L), e |-> e - (53 - L)]
        ELSE DoubleOfMantissa(BigRoundShr(p, L - 53), e + (L - 53)))

RoundToDouble(p, e) == RoundBits(p, e, BigBitLen(p))

\* The double a decimal literal num/den denotes (0.30 is 30/100).
DoubleOfLiteral(num, den) ==
    LET d == BigDivSmall(BigShl(BigFromNat(num), 84), den)
        sticky == IF d.r = 0 THEN <<>> ELSE <<1>>
    IN  RoundToDouble(BigAdd(BigShl(d.q, 1), sticky), -85)

\* n * c in double arithmetic, for an integer 0 < n < 2^31 and a double c
DoubleTimes(n, c) == RoundToDouble(BigMul(c.m, BigFromNat(n)), c.e)

\* x * c in double arithmetic, for positive doubles
DoubleProduct(x, c) ==
    IF IsInfinity(x) \/ IsInfinity(c) THEN Infinity
    ELSE RoundToDouble(BigMul(x.m, c.m), x.e + c.e)

\* x + y in double arithmetic, for positive doubles
DoublePlus(x, y) ==
    IF IsInfinity(x) \/ IsInfinity(y) THEN Infinity
    ELSE LET e0 == IF x.e < y.e THEN x.e ELSE y.e
         IN  RoundToDouble(BigAdd(BigShl(x.m, x.e - e0), BigShl(y.m, y.e - e0)),
                           e0)


(***************************************************************************)
(* null and numbers.  A nullable value is NULL or Some(v), and Val reads   *)
(* v.  A number is NaN, Some(n) for an integer n below 2^31 in absolute    *)
(* value, NegativeZero, or Large(n, d) for a number of 2^31 or more in     *)
(* absolute value: d is the double of its absolute value and n is MaxInt   *)
(* with its sign, which compares with 0 and with every pay of the tables   *)
(* as the number does.  Val reads n.                                       *)
(***************************************************************************)
NULL == <<>>
Some(v) == <<v>>
Val(o) == o[1]
NaN == <<>>

MaxInt == 2^30 + (2^30 - 1)

Large(n, d) == <<n, "double", d>>

IsLarge(v) == Len(v) = 3

\* the value of a number that is not NaN: an integer or a double
Exact(v) == IF IsLarge(v) THEN v[3] ELSE v[1]

(***************************************************************************)
(* Strings are sequences of one-character strings.                         *)
(***************************************************************************)
Digits == <<"0", "1", "2", "3", "4", "5", "6", "7", "8", "9">>

IsDigit(c) == \E d \in 1..10 : Digits[d] = c

DigitValue(c) == (CHOOSE d \in 1..10 : Digits[d] = c) - 1

\* String(n) for an integer n >= 0
RECURSIVE NumberToString(_)
NumberToString(n) ==
    IF n < 10 THEN <<Digits[n + 1]>>
    ELSE NumberToString(n \div 10) \o <<Digits[(n % 10) + 1]>>

\* the code points parseInt skips at the start of its argument: WhiteSpace
\* and LineTerminator of ECMAScript.  A code point with no one-character
\* notation here is written by its name.
WhiteSpace ==
    {" ", "\t", "\n", "\r", "\f", "U+000B", "NBSP", "U+FEFF", "U+1680",
     "U+2000", "U+2001", "U+2002", "U+2003", "U+2004", "U+2005", "U+2006",
     "U+2007", "U+2008", "U+2009", "U+200A", "U+2028", "U+2029", "U+202F",
     "U+205F", "U+3000"}

\* s without its leading white space
SkipWhiteSpace(s) ==
    LET n == CHOOSE n \in 0..Len(s) :
                 /\ \A i \in 1..n : s[i] \in WhiteSpace
                 /\ n = Len(s) \/ s[n + 1] \notin WhiteSpace
    IN  SubSeq(s, n + 1, Len(s))

\* the longest prefix of decimal digits of s
DigitRun(s) ==
    LET n == CHOOSE n \in 0..Len(s) :
                 /\ \A i \in 1..n : IsDigit(s[i])
                 /\ n = Len(s) \/ ~IsDigit(s[n + 1])
    IN  SubSeq(s, 1, n)

\* s without its leading zeros
SkipZeros(s) ==
    LET n == CHOOSE n \in 0..Len(s) :
                 /\ \A i \in 1..n : s[i] = "0"
                 /\ n = Len(s) \/ s[n + 1] # "0"
    IN  SubSeq(s, n + 1, Len(s))

\* the value of the longest prefix of decimal digits of s, read after acc,
\* for a value below 2^31
RECURSIVE ParseDigits(_, _)
ParseDigits(s, acc) ==
    IF s # <<>> /\ IsDigit(s[1])
    THEN ParseDigits(Tail(s), 10 * acc + DigitValue(s[1]))
    ELSE acc

\* 10^k
RECURSIVE BigPow10(_)
BigPow10(k) ==
    IF k <= 9 THEN BigFromNat(10^k)
    ELSE BigMul(BigPow10(k \div 2), BigPow10(k - k \div 2))

\* the value of a run of decimal digits of any length: the digits of the
\* first half, as many powers of ten as the second half has digits, and the
\* digits of the second half
RECURSIVE BigParseDigits(_)
BigParseDigits(s) ==
    IF Len(s) <= 9 THEN BigFromNat(ParseDigits(s, 0))
    ELSE LET h  == Len(s) \div 2
             hi == BigParseDigits(SubSeq(s, 1, h))
             lo == BigParseDigits(SubSeq(s, h + 1, Len(s)))
         IN  IF hi = <<>> THEN lo
             ELSE IF lo = <<>> THEN BigMul(hi, BigPow10(Len(s) - h))
             ELSE BigAdd(BigMul(hi, BigPow10(Len(s) - h)), lo)

\* the longest run of digits of a double: 10^309 and more is Infinity
MaxDoubleDigits == 309

\* the Number -0: it reads as 0 and is told from 0 by Object.is only
NegativeZero == <<0, "-">>

IsNegativeZero(v) == Len(v) = 2

\* n with the sign read: -0 for a negated zero
Signed(neg, n) ==
    IF neg THEN IF n = 0 THEN NegativeZero ELSE Some(0 - n) ELSE Some(n)

\* the number of a run of ten digits or more whose value is big: the
\* nearest double from 2^31 on
ParseLong(neg, big) ==
    IF BigBitLen(big) > 31
    THEN Large(IF neg THEN 0 - MaxInt ELSE MaxInt, RoundToDouble(big, 0))
    ELSE Signed(neg, BigToNat(big))

\* the number of a run of digits that starts with no zero
ParseRun(neg, digits) ==
    IF Len(digits) > MaxDoubleDigits
    THEN Large(IF neg THEN 0 - MaxInt ELSE MaxInt, Infinity)
    ELSE IF Len(digits) < 10 THEN Signed(neg, ParseDigits(digits, 0))
    ELSE ParseLong(neg, BigParseDigits(digits))

\* the number of an optional sign and the digits after it
ParseSigned(neg, run) ==
    IF run = <<>> THEN NaN ELSE ParseRun(neg, SkipZeros(run))

ParseTrimmed(t) ==
    ParseSigned(t # <<>> /\ t[1] = "-",
                DigitRun(IF t # <<>> /\ t[1] \in {"-", "+"} THEN Tail(t)
                         ELSE t))

\* parseInt(value, 10): leading white space, an optional sign, then the
\* longest run of digits; NaN when there is no digit, -0 for a negated zero,
\* and the nearest double for a run of digits that is no double
parseInt(value) == ParseTrimmed(SkipWhiteSpace(value))

isNaN(v) == v = NaN

\* the digits of s in groups of three from the right, separated by commas
RECURSIVE GroupThousands(_)
GroupThousands(s) ==
    IF Len(s) <= 3 THEN s
    ELSE GroupThousands(SubSeq(s, 1, Len(s) - 3))
             \o <<",">> \o SubSeq(s, Len(s) - 2, Len(s))

\* the no-break space Intl puts between the currency and the number
NBSP == "NBSP"

\* formatCurrency of Some(an integer >= 0) or NaN: "PKR", a no-break space
\* and the grouped digits, with no fraction digits
formatCurrency(amount) ==
    LET a == IF isNaN(amount) THEN 0 ELSE Val(amount)
    IN  <<"P", "K", "R", NBSP>> \o GroupThousands(NumberToString(a))

(***************************************************************************)
(* The two pay scales and the BPS options of ./constants.  A scale maps a  *)
(* grade to its stage values; stage i of the code is element i + 1 here.   *)
(***************************************************************************)
PAY_SCALE_2017 ==
    (15 :> <<16120, 17450, 18780, 20110, 21440, 22770, 24100>>) @@
    (16 :> <<18910, 20590, 22300, 24010, 25720, 27430, 29140, 30850, 32560,
             34270, 35980>>)

PAY_SCALE_2022 ==
    (16 :> <<28070, 30250, 32430, 34610, 36790, 38970, 41150, 43330, 45510,
             47700, 52000>>) @@
    (17 :> <<50000, 52000>>)

BPS_OPTIONS == {15, 16, 17}

\* table[grade] is an array (truthy), not undefined
Has(table, grade) == grade \in DOMAIN table


(***************************************************************************)
(* The messages setError is called with, as sequences of their parts.      *)
(***************************************************************************)
ErrInvalidBps == <<"Invalid BPS selected.">>

ErrBelowMinimum(bps, minimum) ==
    <<"Basic pay for BPS-", NumberToString(bps), " must be at least ",
      formatCurrency(Some(minimum)), ".">>

ErrNoStage == <<"Could not determine a stage for the entered basic pay.">>

ErrPromotedPay ==
    <<"For promoted cases, please enter positive, non-zero values for all pay fields.">>

ErrNoValidStage ==
    <<"Could not calculate. The entered basic pay does not correspond to a valid stage.">>

ErrCouldNotCalculate ==
    <<"Could not calculate. Please verify all your inputs are correct and positive values.">>

(***************************************************************************)
(* calculateEnhancements(inputs, stage): NULL, or Some(the five values).   *)
(* In inputs, a number field holds an integer; the field negativeZero      *)
(* names the number fields that hold -0 (their value here is 0) and the    *)
(* field large gives the double of every number field that holds a number  *)
(* of 2^31 or more in absolute value (its value here is MaxInt with the    *)
(* sign).                                                                  *)
(***************************************************************************)
\* the doubles the literals 0.30 and 0.10 denote
Literal030 == DoubleOfLiteral(30, 100)

Literal010 == DoubleOfLiteral(10, 100)

\* the number the field name of in holds
Number(in, name) ==
    IF name \in DOMAIN in.large THEN Large(in[name], in.large[name])
    ELSE Some(in[name])

\* x * c, for a number x > 0 and a double c
Times(x, c) ==
    IF IsLarge(x) THEN DoubleProduct(x[3], c) ELSE DoubleTimes(Val(x), c)

\* the values of a calculation whose two products are dra and
\* runningPayIncrease
CalculatedValues(basic2017, currentBasicPay, dra, runningPayIncrease) ==
    [basic2017          |-> Exact(basic2017),
     dra                |-> dra,
     runningPayIncrease |-> runningPayIncrease,
     totalIncrease      |-> DoublePlus(dra, runningPayIncrease),
     currentBasicPay    |-> Exact(currentBasicPay)]

\* a calculation with the two rates exchanged
EnhancementsRatesExchanged(basic2017, currentBasicPay) ==
    IF Val(basic2017) <= 0 \/ Val(currentBasicPay) <= 0 THEN NULL
    ELSE Some(CalculatedValues(basic2017, currentBasicPay,
                               Times(basic2017, Literal010),
                               Times(currentBasicPay, Literal030)))

\* the check of the two pays and the three amounts, for the numbers
\* basic2017 and currentBasicPay
Enhancements(basic2017, currentBasicPay) ==
    IF Val(basic2017) <= 0 \/ Val(currentBasicPay) <= 0 THEN NULL
    ELSE Some(CalculatedValues(basic2017, currentBasicPay,
                               Times(basic2017, Literal030),
                               Times(currentBasicPay, Literal010)))

\* basic2017 as the code takes it, with table for the historical table:
\* NULL where the code returns null before the check of the pays
basic2017From(table, in, stage) ==
    IF in.wasPromoted
    THEN IF ~Has(table, in.prePromotionBps) THEN NULL
         ELSE Some(Number(in, "prePromotionBasicPay2017"))
    ELSE IF stage = NULL THEN NULL
         ELSE IF \/ ~Has(table, in.bps)
                 \/ Val(stage) < 0
                 \/ Val(stage) >= Len(table[in.bps])
              THEN NULL
              ELSE Some(Some(table[in.bps][Val(stage) + 1]))

\* the rest of the calculation, for the basic2017 found or NULL
EnhancementsOrNull(basic2017, currentBasicPay) ==
    IF basic2017 = NULL THEN NULL
    ELSE Enhancements(Val(basic2017), currentBasicPay)

\* a calculation that reads the baseline from the current-period table
calculateEnhancementsFrom2022(in, stage) ==
    EnhancementsOrNull(basic2017From(PAY_SCALE_2022, in, stage),
                       Number(in, "currentRunningBasicPay"))

\* a promoted calculation that takes the baseline from the historical table
calculateEnhancementsFromTable(in, stage) ==
    IF \/ ~Has(PAY_SCALE_2017, in.prePromotionBps)
       \/ Len(PAY_SCALE_2017[in.prePromotionBps]) = 0
    THEN NULL
    ELSE Enhancements(Some(PAY_SCALE_2017[in.prePromotionBps][1]),
                      Number(in, "currentRunningBasicPay"))

calculateEnhancements(in, stage) ==
    EnhancementsOrNull(basic2017From(PAY_SCALE_2017, in, stage),
                       Number(in, "currentRunningBasicPay"))

(***************************************************************************)
(* The stage detection effect: the foundStage and error it sets.           *)
(***************************************************************************)
\* a scan that takes only a stage whose value is strictly below the pay
RECURSIVE ScanDownStrict(_, _, _)
ScanDownStrict(payScale, pay, i) ==
    IF i < 0 THEN -1
    ELSE IF pay > payScale[i + 1] THEN i
    ELSE ScanDownStrict(payScale, pay, i - 1)

\* a loop that stops above index 0
RECURSIVE ScanDownAboveZero(_, _, _)
ScanDownAboveZero(payScale, pay, i) ==
    IF i < 1 THEN -1
    ELSE IF pay >= payScale[i + 1] THEN i
    ELSE ScanDownAboveZero(payScale, pay, i - 1)

\* the loop from index i down to 0: the first index whose value is <= pay,
\* or -1
RECURSIVE ScanDown(_, _, _)
ScanDown(payScale, pay, i) ==
    IF i < 0 THEN -1
    ELSE IF pay >= payScale[i + 1] THEN i
    ELSE ScanDown(payScale, pay, i - 1)

\* a minimum check that also rejects a pay equal to the stage-0 value
belowMinimumOrEqual(payScale, pay) ==
    Len(payScale) > 0 /\ pay <= payScale[1]

\* pay < payScale[0]; payScale[0] of an empty array is undefined, and
\* pay < undefined is false
belowMinimum(payScale, pay) ==
    Len(payScale) > 0 /\ pay < payScale[1]

\* the effect's branch for an employee who was not promoted
resolveStage(in) ==
    IF in.currentRunningBasicPay > 0 /\ in.bps > 0
    THEN IF ~Has(PAY_SCALE_2022, in.bps)
         THEN [foundStage |-> NULL, error |-> Some(ErrInvalidBps)]
         ELSE LET payScale2022ForBps == PAY_SCALE_2022[in.bps]
                  pay                == in.currentRunningBasicPay
              IN  IF belowMinimum(payScale2022ForBps, pay)
                  THEN [foundStage |-> NULL,
                        error |-> Some(ErrBelowMinimum(in.bps, payScale2022ForBps[1]))]
                  ELSE LET detectedStageIndex ==
                               ScanDown(payScale2022ForBps, pay,
                                        Len(payScale2022ForBps) - 1)
                       IN  IF detectedStageIndex # -1
                           THEN [foundStage |-> Some(detectedStageIndex), error |-> NULL]
                           ELSE [foundStage |-> NULL, error |-> Some(ErrNoStage)]
    ELSE [foundStage |-> NULL, error |-> NULL]

\* an effect that resolves a stage for promoted employees too
detectStageWhenPromoted(in) == resolveStage(in)

detectStage(in) ==
    IF in.wasPromoted THEN [foundStage |-> NULL, error |-> NULL]
    ELSE resolveStage(in)

(***************************************************************************)
(* The state of the App component, as of the last committed render.        *)
(* timer is the pending setTimeout callback of handleCalculate with the    *)
(* inputs and foundStage it closed over, or NULL.                          *)
(*                                                                         *)
(* The updates of handleInputChange and handleCalculate are made in a      *)
(* change or click event and are rendered and committed before the event   *)
(* ends.  The updates of the effect and of the timer callback are made     *)
(* outside an event: they are queued and rendered in a later pass.  queued *)
(* holds, for each of the four states they set, the value of the last such *)
(* update that is still to be rendered, or NULL.  An update made in an     *)
(* event after a queued update of the same state replaces it, being later  *)
(* in the queue of that state.                                             *)
(*                                                                         *)
(* The effect runs in the commit of an event's render.  The first render   *)
(* is not made in an event: its effect runs later, and effectPending says  *)
(* that it is still to run; it runs at the latest before the next render.  *)
(***************************************************************************)
VARIABLES inputs, results, isLoading, error, foundStage, timer, queued,
          effectPending

vars ==
    <<inputs, results, isLoading, error, foundStage, timer, queued,
      effectPending>>

\* no number field holds a number of 2^31 or more
NoLarge == <<>>

InitialInputs ==
    [bps                      |-> 16,
     wasPromoted              |-> FALSE,
     prePromotionBps          |-> 15,
     prePromotionBasicPay2017 |-> 24100,
     currentRunningBasicPay   |-> 47700,
     negativeZero             |-> {},
     large                    |-> NoLarge]

NoUpdates ==
    [setFoundStage |-> NULL, setError |-> NULL, setResults |-> NULL,
     setIsLoading  |-> NULL]

\* the queue q after a run of the effect for these inputs
EffectRun(in, q) ==
    [q EXCEPT !.setFoundStage = Some(detectStage(in).foundStage),
              !.setError      = Some(detectStage(in).error)]

\* useState's initial values in the first committed render; the effect has
\* not run yet
Init ==
    /\ inputs = InitialInputs
    /\ results = NULL
    /\ isLoading = FALSE
    /\ foundStage = NULL
    /\ error = NULL
    /\ timer = NULL
    /\ queued = NoUpdates
    /\ effectPending = TRUE

(***************************************************************************)
(* What the user can enter.  The two selects offer BPS_OPTIONS; the pay    *)
(* fields take what is typed (the empty field is the empty string).  The   *)
(* pre-promotion fields are rendered only while wasPromoted is checked.    *)
(***************************************************************************)
Fields ==
    {"bps", "prePromotionBps", "prePromotionBasicPay2017", "currentRunningBasicPay"}

\* the option values of the two selects: BPS_OPTIONS.map
BpsTyped == {NumberToString(b) : b \in BPS_OPTIONS}

PrePromotionBpsTyped == BpsTyped

\* what the user types into the two pay fields
PrePromotionPayTyped == {<<>>, <<"2", "4", "1", "0", "0">>}

CurrentPayTyped ==
    {<<>>, <<"1", "0", "0", "0">>, <<"4", "7", "7", "0", "0">>,
     <<"5", "0", "0", "0", "0">>}

TypedValues(name) ==
    CASE name = "bps"                      -> BpsTyped
      [] name = "prePromotionBps"          -> PrePromotionBpsTyped
      [] name = "prePromotionBasicPay2017" -> PrePromotionPayTyped
      [] name = "currentRunningBasicPay"   -> CurrentPayTyped

Rendered(name) ==
    name \in {"bps", "currentRunningBasicPay"} \/ inputs.wasPromoted

\* Object.is on the number field name of two inputs: -0 is not 0
ObjectIs(a, b, name) ==
    /\ a[name] = b[name]
    /\ name \in a.negativeZero <=> name \in b.negativeZero
    /\ name \in DOMAIN a.large <=> name \in DOMAIN b.large
    /\ name \in DOMAIN a.large \cap DOMAIN b.large
       => a.large[name] = b.large[name]

\* the queue q after the effect of the first render has run, if it has not
\* run yet: React runs a pending effect before it renders again
EffectFlushed(q) ==
    IF effectPending THEN EffectRun(inputs, q) ELSE q

\* the queue q after the commit of a render with newInputs: the effect runs
\* if one of its dependencies changed
EffectAfter(newInputs, q) ==
    IF \/ ~ObjectIs(newInputs, inputs, "bps")
       \/ ~ObjectIs(newInputs, inputs, "currentRunningBasicPay")
       \/ newInputs.wasPromoted # inputs.wasPromoted
    THEN EffectRun(newInputs, q)
    ELSE q

\* (newInputs as any)[name] = isNaN(parsedValue) ? 0 : parsedValue
WithField(in, name, parsedValue) ==
    [in EXCEPT ![name] = IF isNaN(parsedValue) THEN 0 ELSE Val(parsedValue),
               !.negativeZero = IF IsNegativeZero(parsedValue)
                                THEN @ \cup {name} ELSE @ \ {name},
               !.large = IF IsLarge(parsedValue)
                         THEN [n \in DOMAIN in.large \cup {name} |->
                                  IF n = name THEN parsedValue[3]
                                  ELSE in.large[n]]
                         ELSE IF name \in DOMAIN in.large
                              THEN [n \in DOMAIN in.large \ {name} |->
                                       in.large[n]]
                              ELSE in.large]

\* a field change that leaves the previous results in place
ChangeFieldKeepingResults(name, value) ==
    /\ Rendered(name)
    /\ inputs' = WithField(inputs, name, parseInt(value))
    /\ queued' = EffectAfter(inputs', EffectFlushed(queued))
    /\ effectPending' = FALSE
    /\ UNCHANGED <<results, isLoading, timer, foundStage, error>>

\* handleInputChange for a select or a number field, the render of its
\* updates and the effect after it
ChangeField(name, value) ==
    /\ Rendered(name)
    /\ inputs' = WithField(inputs, name, parseInt(value))
    /\ results' = NULL
    /\ queued' = EffectAfter(inputs',
                     EffectFlushed([queued EXCEPT !.setResults = NULL]))
    /\ effectPending' = FALSE
    /\ UNCHANGED <<isLoading, timer, foundStage, error>>

\* handleInputChange for the checkbox
ChangeCheckbox(checked) ==
    /\ checked # inputs.wasPromoted
    /\ inputs' = [inputs EXCEPT !.wasPromoted = checked]
    /\ results' = NULL
    /\ queued' = EffectAfter(inputs',
                     EffectFlushed([queued EXCEPT !.setResults = NULL]))
    /\ effectPending' = FALSE
    /\ UNCHANGED <<isLoading, timer, foundStage, error>>

\* the effect of the first render runs
EffectRuns ==
    /\ effectPending
    /\ queued' = EffectFlushed(queued)
    /\ effectPending' = FALSE
    /\ UNCHANGED <<inputs, results, isLoading, error, foundStage, timer>>

\* the render of the queued updates
UpdatesRendered ==
    /\ queued # NoUpdates
    /\ LET q == EffectFlushed(queued)
       IN  /\ foundStage' = IF q.setFoundStage # NULL
                            THEN Val(q.setFoundStage) ELSE foundStage
           /\ error' = IF q.setError # NULL THEN Val(q.setError) ELSE error
           /\ results' = IF q.setResults # NULL
                         THEN Val(q.setResults) ELSE results
           /\ isLoading' = IF q.setIsLoading # NULL
                           THEN Val(q.setIsLoading) ELSE isLoading
    /\ queued' = NoUpdates
    /\ effectPending' = FALSE
    /\ UNCHANGED <<inputs, timer>>

\* a check that lets a pay of zero pass
calculationErrorNegativeOnly(in, stage) ==
    IF in.wasPromoted
    THEN IF in.prePromotionBasicPay2017 < 0 \/ in.currentRunningBasicPay < 0
         THEN Some(ErrPromotedPay) ELSE NULL
    ELSE IF stage = NULL THEN Some(ErrNoValidStage) ELSE NULL

\* the error handleCalculate finds in the inputs, or NULL
calculationError(in, stage) ==
    IF in.wasPromoted
    THEN IF in.prePromotionBasicPay2017 <= 0 \/ in.currentRunningBasicPay <= 0
         THEN Some(ErrPromotedPay) ELSE NULL
    ELSE IF stage = NULL THEN Some(ErrNoValidStage) ELSE NULL

\* the Calculate button is disabled while loading or while an error is set
ButtonEnabled == ~isLoading /\ error = NULL

\* a handler whose early return leaves isLoading set
HandleCalculateStillLoading ==
    /\ ButtonEnabled
    /\ results' = NULL
    /\ isLoading' = TRUE
    /\ LET found == IF error # NULL THEN error
                    ELSE calculationError(inputs, foundStage)
       IN  IF found # NULL
           THEN /\ error' = found
                /\ timer' = NULL
                /\ queued' = EffectFlushed([queued EXCEPT !.setResults = NULL,
                                                          !.setIsLoading = NULL,
                                                          !.setError = NULL])
           ELSE /\ error' = error
                /\ timer' = Some([inputs |-> inputs, foundStage |-> foundStage])
                /\ queued' = EffectFlushed([queued EXCEPT !.setResults = NULL,
                                                          !.setIsLoading = NULL])
    /\ effectPending' = FALSE
    /\ UNCHANGED <<inputs, foundStage>>

\* handleCalculate, on a click of the button, with the inputs, foundStage
\* and error of the committed render, and the render of its updates; an
\* effect that is still to run runs before that render, after the handler
HandleCalculate ==
    /\ ButtonEnabled
    /\ results' = NULL
    /\ LET found == IF error # NULL THEN error
                    ELSE calculationError(inputs, foundStage)
       IN  IF found # NULL
           THEN /\ error' = found
                /\ isLoading' = FALSE
                /\ timer' = NULL
                /\ queued' = EffectFlushed([queued EXCEPT !.setResults = NULL,
                                                          !.setIsLoading = NULL,
                                                          !.setError = NULL])
           ELSE /\ error' = error
                /\ isLoading' = TRUE
                /\ timer' = Some([inputs |-> inputs, foundStage |-> foundStage])
                /\ queued' = EffectFlushed([queued EXCEPT !.setResults = NULL,
                                                          !.setIsLoading = NULL])
    /\ effectPending' = FALSE
    /\ UNCHANGED <<inputs, foundStage>>

\* the queue q after the updates of the callback, which has calculated
\* the values calculated or NULL
CallbackUpdates(q, calculated) ==
    IF calculated # NULL
    THEN [q EXCEPT !.setResults = Some(calculated),
                   !.setError = Some(NULL),
                   !.setIsLoading = Some(FALSE)]
    ELSE [q EXCEPT !.setError = Some(Some(ErrCouldNotCalculate)),
                   !.setIsLoading = Some(FALSE)]

\* the callback of setTimeout, 500 ms after the click: its updates are
\* queued after those that are still to be rendered
TimerFires ==
    /\ timer # NULL
    /\ queued' = CallbackUpdates(queued,
                     calculateEnhancements(Val(timer).inputs,
                                           Val(timer).foundStage))
    /\ timer' = NULL
    /\ UNCHANGED <<inputs, results, isLoading, error, foundStage, effectPending>>

Next ==
    \/ \E name \in Fields :
           \E value \in TypedValues(name) : ChangeField(name, value)
    \/ \E checked \in BOOLEAN : ChangeCheckbox(checked)
    \/ EffectRuns
    \/ UpdatesRendered
    \/ HandleCalculate
    \/ TimerFires

Spec == Init /\ [][Next]_vars

\* the pending timeout callback is run: the timer goes from pending to none,
\* a step that of all the actions only TimerFires takes
TimerCallbackRuns == timer # NULL /\ timer' = NULL

\* the browser runs every pending timer callback, and React renders the
\* updates it has queued
FairSpec == Spec /\ WF_timer(TimerCallbackRuns) /\ WF_vars(UpdatesRendered)

(***************************************************************************)
(* The calculation alone, over a wider range of pays: the form holds any   *)
(* inputs the user can have entered, and the only steps are a calculate    *)
(* request, its timer callback and the render of the queued updates.  The  *)
(* render shows the stage and the error of the effect's last run for these *)
(* inputs, or, the updates of that run being still queued, no error and a  *)
(* stage that was resolved for earlier inputs.                             *)
(***************************************************************************)
MaxPay == 24
MaxDebt == 2
MaxStaleStage == 1

\* no stage, or a stage resolved for earlier inputs
StaleStages == {NULL} \cup {Some(stage) : stage \in 0..MaxStaleStage}

PayFields == {"prePromotionBasicPay2017", "currentRunningBasicPay"}

\* a number field holds -0 only where its value is 0; the selects deliver
\* the digits of their options
EnteredInputs ==
    {in \in [bps                      : BPS_OPTIONS,
             wasPromoted              : BOOLEAN,
             prePromotionBps          : BPS_OPTIONS,
             prePromotionBasicPay2017 : ((0 - MaxDebt)..MaxPay) \cup {24100},
             currentRunningBasicPay   : ((0 - MaxDebt)..MaxPay)
                                            \cup {28070, 47700, 50000},
             negativeZero             : SUBSET PayFields,
             large                    : {NoLarge}] :
        \A name \in in.negativeZero : in[name] = 0}

\* the form after edits, the updates of whose effect are rendered or still
\* queued
CalcInit ==
    /\ inputs \in EnteredInputs
    /\ results = NULL
    /\ isLoading = FALSE
    /\ timer = NULL
    /\ effectPending = FALSE
    /\ \/ /\ foundStage = detectStage(inputs).foundStage
          /\ error = detectStage(inputs).error
          /\ queued = NoUpdates
       \/ /\ foundStage \in StaleStages
          /\ error = NULL
          /\ queued = EffectRun(inputs, NoUpdates)

CalcNext ==
    \/ HandleCalculate
    \/ TimerFires
    \/ UpdatesRendered

CalcSpec == CalcInit /\ [][CalcNext]_vars


(***************************************************************************)
(* Properties.                                                             *)
(***************************************************************************)
currentPay == inputs.currentRunningBasicPay

\* the grade has stages in the current-period table
HasStages(grade) == Has(PAY_SCALE_2022, grade) /\ Len(PAY_SCALE_2022[grade]) > 0

\* the stage and the error once the queued updates are rendered: the queued
\* one, else the one in state
ResolvedStage ==
    IF queued.setFoundStage # NULL THEN Val(queued.setFoundStage) ELSE foundStage

ResolvedError ==
    IF queued.setError # NULL THEN Val(queued.setError) ELSE error

\* C1: floor property of stage resolution.  For a grade of the current-period
\* table and a currentPay >= its stage-0 value, the stage s that resolution
\* last returned has table[s] <= currentPay and is the last stage or has
\* table[s+1] > currentPay; a currentPay equal to a tabulated value resolves
\* to a stage of that value.
C1_FloorProperty ==
    (/\ ~effectPending
     /\ ~inputs.wasPromoted
     /\ HasStages(inputs.bps)
     /\ currentPay >= PAY_SCALE_2022[inputs.bps][1])
    => /\ ResolvedStage # NULL
       /\ LET table == PAY_SCALE_2022[inputs.bps]
              s     == Val(ResolvedStage)
          IN  /\ s \in 0..(Len(table) - 1)
              /\ table[s + 1] <= currentPay
              /\ s = Len(table) - 1 \/ table[s + 2] > currentPay
              /\ \A i \in 1..Len(table) :
                     table[i] = currentPay => table[s + 1] = currentPay

\* C1 witness: a pay between the stage-9 and the stage-10 value of grade 16
\* resolved to stage 9, and the effect's updates are rendered
C1_Witness ==
    /\ ~inputs.wasPromoted
    /\ inputs.bps = 16
    /\ currentPay > PAY_SCALE_2022[16][10]
    /\ currentPay < PAY_SCALE_2022[16][11]
    /\ queued = NoUpdates
    /\ foundStage = Some(9)

\* the amount a formatted currency string shows
AmountShown(formatted) == ParseDigits(SelectSeq(formatted, IsDigit), 0)

IsBelowMinimum(message) ==
    /\ Len(message) = 5
    /\ message[1] = "Basic pay for BPS-"
    /\ message[3] = " must be at least "

\* the stage detection effect ran in this step: the effect of the first
\* render, or the effect after a render that changed one of its dependencies
EffectRan ==
    \/ effectPending /\ ~effectPending'
    \/ ~ObjectIs(inputs', inputs, "bps")
    \/ ~ObjectIs(inputs', inputs, "currentRunningBasicPay")
    \/ inputs'.wasPromoted # inputs.wasPromoted

\* C2: whenever stage resolution runs for a grade of the current-period table
\* and a positive currentPay strictly below the grade's stage-0 value, it
\* yields no stage and a below-minimum diagnostic showing exactly that stage-0
\* value; a currentPay equal to the stage-0 value is accepted.  What it
\* yields is what the effect queues, and the render of the queued updates
\* puts it in state.
C2_BelowMinimum ==
    [][/\ (/\ EffectRan
           /\ ~inputs'.wasPromoted
           /\ HasStages(inputs'.bps)
           /\ inputs'.currentRunningBasicPay > 0)
          => LET minimum == PAY_SCALE_2022[inputs'.bps][1]
                 pay     == inputs'.currentRunningBasicPay
                 stage   == Val(queued'.setFoundStage)
                 message == Val(queued'.setError)
             IN  /\ queued'.setFoundStage # NULL
                 /\ queued'.setError # NULL
                 /\ pay < minimum
                    => /\ stage = NULL
                       /\ message # NULL
                       /\ IsBelowMinimum(Val(message))
                       /\ AmountShown(Val(message)[4]) = minimum
                       /\ AmountShown(Val(message)[2]) = inputs'.bps
                 /\ pay = minimum
                    => /\ stage # NULL
                       /\ message = NULL
       /\ (queued # NoUpdates /\ queued' = NoUpdates)
          => /\ queued.setFoundStage # NULL
                => foundStage' = Val(queued.setFoundStage)
             /\ queued.setError # NULL
                => error' = Val(queued.setError)]_vars

\* C2 witness: 47700 was entered for grade 17 and rejected with the minimum
\* 50000, and the effect's updates are rendered
C2_Witness ==
    /\ ~inputs.wasPromoted
    /\ inputs.bps = 17
    /\ currentPay = 47700
    /\ queued = NoUpdates
    /\ foundStage = NULL
    /\ error = Some(ErrBelowMinimum(17, 50000))


\* the snapshot the pending timer callback closed over
pending == Val(timer)

\* the result the timer callback has queued in this step, or NULL
Delivered == IF queued'.setResults # NULL THEN Val(queued'.setResults) ELSE NULL

\* C3: non-promoted branch.  When the timer callback computes with the stage
\* s the request captured for inputs.grade, a result uses baseline pay =
\* historical[grade][s]; if the grade is absent from the historical table or
\* s is outside that grade's historical sequence, the calculation fails and
\* no result is produced.  The result the callback delivers is the one that
\* the render of its updates shows.
C3_HistoricalBaseline ==
    [][/\ (/\ TimerCallbackRuns
           /\ ~pending.inputs.wasPromoted
           /\ pending.foundStage # NULL)
          => LET grade   == pending.inputs.bps
                 s       == Val(pending.foundStage)
                 inRange == /\ Has(PAY_SCALE_2017, grade)
                            /\ s \in 0..(Len(PAY_SCALE_2017[grade]) - 1)
             IN  /\ Delivered # NULL
                    => /\ inRange
                       /\ Val(Delivered).basic2017 = PAY_SCALE_2017[grade][s + 1]
                 /\ ~inRange
                    => /\ Delivered = NULL
                       /\ queued'.setError = Some(Some(ErrCouldNotCalculate))
                 /\ (/\ inRange
                     /\ PAY_SCALE_2017[grade][s + 1] > 0
                     /\ pending.inputs.currentRunningBasicPay > 0)
                    => Delivered # NULL
       /\ (queued.setResults # NULL /\ queued' = NoUpdates)
          => results' = Val(queued.setResults)]_vars

\* C3 witness: grade 17 has current stages and no historical sequence; a
\* request with the stage resolved for its pay has failed with no result
C3_Witness ==
    /\ ~inputs.wasPromoted
    /\ inputs.bps = 17
    /\ ~Has(PAY_SCALE_2017, 17)
    /\ queued = NoUpdates
    /\ foundStage = Some(0)
    /\ timer = NULL
    /\ results = NULL
    /\ error = Some(ErrCouldNotCalculate)

\* C4: promoted branch.  If prePromotionBps has no entry in the historical
\* table the calculation fails with no result whatever the pays are; otherwise
\* the result's baseline pay is prePromotionBasicPay2017 as entered.
C4_PromotedBaseline ==
    [][(/\ HandleCalculate
        /\ inputs.wasPromoted
        /\ ~Has(PAY_SCALE_2017, inputs.prePromotionBps)
        => results' = NULL /\ (timer' # NULL \/ error' # NULL))
       /\
       (/\ TimerCallbackRuns
        /\ pending.inputs.wasPromoted
        => IF Has(PAY_SCALE_2017, pending.inputs.prePromotionBps)
           THEN /\ Delivered # NULL
                /\ Val(Delivered).basic2017 = pending.inputs.prePromotionBasicPay2017
           ELSE /\ Delivered = NULL
                /\ queued'.setError = Some(Some(ErrCouldNotCalculate)))
       /\
       (queued.setResults # NULL /\ queued' = NoUpdates
        => results' = Val(queued.setResults))]_vars

\* some stage of some grade of the historical table has this value
InHistoricalTable(pay) ==
    \E grade \in DOMAIN PAY_SCALE_2017 :
        \E i \in 1..Len(PAY_SCALE_2017[grade]) : PAY_SCALE_2017[grade][i] = pay

\* C4 witness: a promoted result whose baseline pay is the entered value, which
\* is no value of the historical table
C4_Witness ==
    /\ inputs.wasPromoted
    /\ results # NULL
    /\ Val(results).basic2017 = inputs.prePromotionBasicPay2017
    /\ ~InHistoricalTable(Val(results).basic2017)

\* C5: promoted branch.  A calculate request with prePromotionBasicPay2017 <= 0
\* or currentRunningBasicPay <= 0 ends at once in the non-positive-pay error,
\* with no result and no calculation pending.
C5_PromotedNonPositivePay ==
    [][(/\ HandleCalculate
        /\ inputs.wasPromoted
        /\ \/ inputs.prePromotionBasicPay2017 <= 0
           \/ inputs.currentRunningBasicPay <= 0)
       => /\ error' = Some(ErrPromotedPay)
          /\ results' = NULL
          /\ timer' = NULL
          /\ ~isLoading'
          /\ queued'.setResults = NULL
          /\ queued'.setError = NULL]_vars

\* C5 witness: a promoted request with a negative pre-promotion pay has ended
\* in the non-positive-pay error
C5_Witness ==
    /\ inputs.wasPromoted
    /\ inputs.prePromotionBasicPay2017 < 0
    /\ inputs.currentRunningBasicPay > 0
    /\ error = Some(ErrPromotedPay)
    /\ results = NULL
    /\ ~isLoading


\* the numerator of the double d over the denominator 2^k, for k >= -d.e
Scaled(d, k) == BigShl(d.m, d.e + k)

\* 10 * d = n as real numbers, for a positive double d and an integer n
TenTimesExactly(d, n) ==
    LET k == IF d.e < 0 THEN 0 - d.e ELSE 0
    IN  BigMulSmall(Scaled(d, k), 10) = BigShl(BigFromNat(n), k)

\* |10 * d - n| <= n * 10^-9 as real numbers
TenTimesWithinTolerance(d, n) ==
    LET k    == IF d.e < 0 THEN 0 - d.e ELSE 0
        a    == BigMulSmall(Scaled(d, k), 10)
        b    == BigShl(BigFromNat(n), k)
        diff == IF BigCmp(a, b) >= 0 THEN BigSub(a, b) ELSE BigSub(b, a)
    IN  BigCmp(BigMulSmall(BigMulSmall(BigMulSmall(diff, 1000), 1000), 1000), b) <= 0

\* t = x + y as real numbers, for positive doubles
SumExactly(t, x, y) ==
    LET lowest == IF x.e < y.e THEN (IF x.e < t.e THEN x.e ELSE t.e)
                  ELSE (IF y.e < t.e THEN y.e ELSE t.e)
        k      == 0 - lowest
    IN  Scaled(t, k) = BigAdd(Scaled(x, k), Scaled(y, k))

\* the baseline pay the code takes for a snapshot whose calculation succeeds
BaselineOf(snapshot) ==
    IF snapshot.inputs.wasPromoted THEN snapshot.inputs.prePromotionBasicPay2017
    ELSE PAY_SCALE_2017[snapshot.inputs.bps][Val(snapshot.foundStage) + 1]

\* the result echoes the baseline pay and the current pay of the snapshot
Echoes(r, snapshot) ==
    /\ r.basic2017 = BaselineOf(snapshot)
    /\ r.currentBasicPay = snapshot.inputs.currentRunningBasicPay
    /\ r.basic2017 > 0
    /\ r.currentBasicPay > 0

\* C6 as claimed: a successful result has 10 * allowance = 3 * baselinePay,
\* 10 * increase = currentPay and total = allowance + increase exactly, and
\* echoes baselinePay and currentPay.
C6_ExactTenths ==
    [][(TimerCallbackRuns /\ Delivered # NULL)
       => LET r == Val(Delivered)
          IN  /\ Echoes(r, pending)
              /\ TenTimesExactly(r.dra, 3 * r.basic2017)
              /\ TenTimesExactly(r.runningPayIncrease, r.currentBasicPay)
              /\ SumExactly(r.totalIncrease, r.dra, r.runningPayIncrease)]_vars

\* C6 as amended: a successful result echoes baselinePay and currentPay; its
\* allowance is within 1e-9 (relative) of 30% of baselinePay, its increase
\* within 1e-9 of 10% of currentPay, and its total is the double sum of the
\* allowance and the increase, within 1e-9 of 0.3 * baselinePay + 0.1 * currentPay.
C6_WithinTolerance ==
    [][(TimerCallbackRuns /\ Delivered # NULL)
       => LET r == Val(Delivered)
          IN  /\ Echoes(r, pending)
              /\ TenTimesWithinTolerance(r.dra, 3 * r.basic2017)
              /\ TenTimesWithinTolerance(r.runningPayIncrease, r.currentBasicPay)
              /\ r.totalIncrease = DoublePlus(r.dra, r.runningPayIncrease)
              /\ TenTimesWithinTolerance(r.totalIncrease,
                                         3 * r.basic2017 + r.currentBasicPay)]_vars

\* C6 witness: a result for the baseline pay 3, whose allowance is the double
\* 0.8999999999999999 and not 0.9
C6_Witness ==
    /\ results # NULL
    /\ Val(results).basic2017 = 3
    /\ Val(results).dra = DoubleTimes(3, Literal030)
    /\ ~TenTimesExactly(Val(results).dra, 9)
    /\ TenTimesWithinTolerance(Val(results).dra, 9)


ResultFields ==
    {"basic2017", "dra", "runningPayIncrease", "totalIncrease", "currentBasicPay"}

\* C7: in every reachable state a result and an error are never both present,
\* and a present result has all five fields, populated by one computation
\* from its baseline pay and its current pay.
C7_NoPartialResult ==
    /\ ~(results # NULL /\ error # NULL)
    /\ results # NULL
       => /\ DOMAIN Val(results) = ResultFields
          /\ results = Enhancements(Some(Val(results).basic2017),
                                    Some(Val(results).currentBasicPay))

\* C7 witness: a result is shown and no error, although the inputs were edited
\* during the calculation to a pay for which the effect yields an error
C7_Witness ==
    /\ results # NULL
    /\ error = NULL
    /\ ~isLoading
    /\ detectStage(inputs).error # NULL


\* what a calculate request ends with in a state with these inputs, stage and
\* error: Some(the result), or NULL for an error.  While an error is set the
\* button is disabled and handleCalculate itself keeps that error.
RequestOutcome(in, stage, err) ==
    IF err # NULL THEN NULL
    ELSE IF calculationError(in, stage) # NULL THEN NULL
    ELSE calculateEnhancements(in, stage)

\* the outcome when the inputs were reached by edits alone
OutcomeOfInputs(in) ==
    RequestOutcome(in, detectStage(in).foundStage, detectStage(in).error)

\* C8 as claimed: when no request is loading and nothing is left to run or
\* to render, the outcome (result or error) of the next calculate request is
\* determined by the inputs in force alone, whatever edits and requests came
\* before.
C8_OutcomeFromInputsAlone ==
    (~isLoading /\ queued = NoUpdates /\ ~effectPending)
    => RequestOutcome(inputs, foundStage, error) = OutcomeOfInputs(inputs)

MaxStages == 3
MaxStageValue == 3

\* stage sequences of up to MaxStages values, the empty one included
StageSequences == UNION {[1..n -> 1..MaxStageValue] : n \in 0..MaxStages}

\* no stage, or a stage of a sequence of up to MaxStages + 1 values
CapturedStages == {NULL} \cup {Some(stage) : stage \in 0..MaxStages}

\* the updates of the timer callback of a request for the initial inputs
\* that captured this stage, the historical table giving grade 16 the
\* sequence payScale
CallbackFor(payScale, stage) ==
    CallbackUpdates(NoUpdates,
        EnhancementsOrNull(basic2017From(16 :> payScale, InitialInputs, stage),
                           Number(InitialInputs, "currentRunningBasicPay")))

\* the end of loading with a result and the error cleared, or with an error
\* and no result
OneOutcome(q) ==
    /\ q.setIsLoading = Some(FALSE)
    /\ \/ q.setResults # NULL /\ q.setError = Some(NULL)
       \/ q.setResults = NULL /\ q.setError = Some(Some(ErrCouldNotCalculate))

\* the request whose loading ends in this step ends with a result and no
\* error, or with an error and no result
EndsWithOneOutcome ==
    (isLoading /\ ~isLoading')
    => \/ results' # NULL /\ error' = NULL
       \/ results' = NULL /\ error' # NULL

IsResolverDiagnostic(err) ==
    /\ err # NULL
    /\ \/ err = Some(ErrInvalidBps)
       \/ err = Some(ErrNoStage)
       \/ IsBelowMinimum(Val(err))

\* stages a calculation could be handed
AnyStage == {NULL, Some(0), Some(9)}

\* the calculation for these inputs is the same for every grade and every
\* stage, and is made of the two entered pays and the pre-promotion grade's
\* presence in the historical table alone
GradeAndStageFree(in, stage) ==
    \A calculated \in {calculateEnhancements(in, stage)} :
        /\ \A grade \in BPS_OPTIONS : \A otherStage \in AnyStage :
               calculateEnhancements([in EXCEPT !.bps = grade], otherStage)
                   = calculated
        /\ calculated
               = IF Has(PAY_SCALE_2017, in.prePromotionBps)
                 THEN Enhancements(Number(in, "prePromotionBasicPay2017"),
                                   Number(in, "currentRunningBasicPay"))
                 ELSE NULL

\* C10 as claimed: in every state where the employee is marked promoted the
\* resolved stage is absent and no diagnostic of stage resolution is set.
C10_PromotedHasNoStage ==
    inputs.wasPromoted
    => /\ foundStage = NULL
       /\ ~IsResolverDiagnostic(error)

\* C10 as amended: in every state where the employee is marked promoted, the
\* stage is absent and no diagnostic of stage resolution is set once the
\* queued updates are rendered; a request made while promoted may capture
\* the stage of an earlier render, but the calculation of every promoted
\* request that starts a timer gives the same result for every grade and
\* every stage, and what the timer callback delivers for it is made of the
\* entered pre-promotion pay and current pay alone.
C10_PromotedSkipsResolution ==
    /\ [](inputs.wasPromoted
          => /\ ResolvedStage = NULL
             /\ ~IsResolverDiagnostic(ResolvedError)
             /\ ResolvedError # Some(ErrNoValidStage))
    /\ [][(HandleCalculate /\ inputs.wasPromoted /\ timer' # NULL)
          => GradeAndStageFree(Val(timer').inputs, Val(timer').foundStage)]_vars
    /\ [][(TimerCallbackRuns /\ pending.inputs.wasPromoted)
          => Delivered = IF Has(PAY_SCALE_2017, pending.inputs.prePromotionBps)
                         THEN Enhancements(
                                  Number(pending.inputs, "prePromotionBasicPay2017"),
                                  Number(pending.inputs, "currentRunningBasicPay"))
                         ELSE NULL]_vars

\* C10 witness: a promoted result is shown for grade 17 and a pay below that
\* grade's stage-0 value, with the baseline the user entered
C10_Witness ==
    /\ inputs.wasPromoted
    /\ inputs.bps = 17
    /\ belowMinimum(PAY_SCALE_2022[17], currentPay)
    /\ queued = NoUpdates
    /\ foundStage = NULL
    /\ results # NULL
    /\ results = calculateEnhancements(inputs, foundStage)
    /\ Val(results).basic2017 = inputs.prePromotionBasicPay2017


NonDecreasing(payScale) ==
    \A i \in 1..(Len(payScale) - 1) : payScale[i] <= payScale[i + 1]

\* every grade of the current-period table has a non-decreasing sequence
NonDecreasingTable ==
    \A grade \in DOMAIN PAY_SCALE_2022 : NonDecreasing(PAY_SCALE_2022[grade])

\* the scan of a sequence from its last index
Scan(payScale, pay) == ScanDown(payScale, pay, Len(payScale) - 1)

\* C11: for every non-decreasing stage sequence and every pay, once the
\* minimum check has passed (the sequence has a stage-0 value and pay >= it)
\* the scan finds a stage; whenever the effect runs for a grade of the
\* current-period table and a pay >= the grade's stage-0 value, it queues a
\* stage and no error; and, the table's sequences being non-decreasing, the
\* "could not determine a stage" diagnostic is never queued nor in state.
C11_StageFoundAfterMinimum ==
    /\ \A payScale \in StageSequences : \A pay \in 1..(MaxStageValue + 1) :
           (/\ NonDecreasing(payScale)
            /\ Len(payScale) > 0
            /\ pay >= payScale[1])
           => /\ ~belowMinimum(payScale, pay)
              /\ Scan(payScale, pay) \in 0..(Len(payScale) - 1)
    /\ [][(/\ EffectRan
           /\ ~inputs'.wasPromoted
           /\ inputs'.currentRunningBasicPay > 0
           /\ HasStages(inputs'.bps)
           /\ inputs'.currentRunningBasicPay >= PAY_SCALE_2022[inputs'.bps][1])
          => /\ queued'.setFoundStage # NULL
             /\ Val(queued'.setFoundStage) # NULL
             /\ queued'.setError = Some(NULL)]_vars
    /\ [](NonDecreasingTable
          => /\ error # Some(ErrNoStage)
             /\ queued.setError # Some(Some(ErrNoStage)))

\* C11 witness: for grade 17 the minimum check passed with a pay equal to the
\* stage-0 value, and the scan went down to stage 0
C11_Witness ==
    /\ ~inputs.wasPromoted
    /\ inputs.bps = 17
    /\ currentPay = PAY_SCALE_2022[17][1]
    /\ ~belowMinimum(PAY_SCALE_2022[17], currentPay)
    /\ queued = NoUpdates
    /\ foundStage = Some(0)
    /\ error = NULL


\* C12 as claimed: in every reachable state a displayed result is the result
\* computed from the inputs now in the form and the stage resolved for them,
\* also when the inputs were edited between the click and its timer callback.
C12_ResultOfCurrentInputs ==
    results # NULL => results = calculateEnhancements(inputs, foundStage)


\* the inputs are valid for the selected branch: a calculate request made
\* with these inputs and nothing before it ends in a result
ValidInputs(in) == OutcomeOfInputs(in) # NULL

\* C13 as claimed: after every edit that leaves all the inputs valid for the
\* selected branch and no update to be rendered, no error is set and the
\* Calculate button is enabled unless a request is still loading.
C13_ErrorClearedByValidEdit ==
    [][(/\ inputs' # inputs
        /\ queued' = NoUpdates
        /\ ValidInputs(inputs'))
       => /\ error' = NULL
          /\ ~isLoading' => ButtonEnabled']_vars

=============================================================================
